---- MODULE Spec2Model ----
(***************************************************************************)
(* Model of the Linuwu Sense fan curve controller (src/Fan-Curve/          *)
(* fan-curve.py): ThermalMonitor, FanController, FanCurve and the          *)
(* FanCurveController daemon loop.                                         *)
(*                                                                         *)
(* Temperatures are Python floats in degrees Celsius.  The model holds a   *)
(* temperature as an integer number of millidegrees, which represents      *)
(* every value read_temp can return exactly (raw / 1000.0 or raw).  The    *)
(* interpolated target is held as an exact fraction num / den.  On the      *)
(* curves modelled here the truncated float of the source and the truncated *)
(* exact quotient agree for every millidegree reading between 20 and 105   *)
(* degrees.                                                                *)
(***************************************************************************)
EXTENDS Integers, Sequences, FiniteSets, TLC

\* ------------------------------------------------------------------ bounds
\* Number of candidate sensor endpoints found per domain in one cycle.
MaxZones == 2

\* ------------------------------------------------------- program constants
\* read_temp: a raw value above this is taken to be millidegrees.
MilliThreshold == 200
\* read_temp: temp / 1000.0
MilliPerDegree == 1000
\* calculate_fan_speed: self.config.get("hysteresis", 3)
DefaultHysteresis == 3

\* Python's None for an Optional value; a present value v is held as <<v>>.
None == <<>>
Some(v) == <<v>>
ValueOf(opt) == opt[1]

\* A run_once local that holds a duty and is not assigned yet.
NoDuty == -1

\* ------------------------------------------------------------ ThermalMonitor
\* What reading one candidate sensor file can do in a cycle: open raises
\* FileNotFoundError ("missing") or PermissionError ("denied"), int raises
\* ValueError ("garbage"), open or read raises another OSError such as EIO,
\* ENODATA or IsADirectoryError ("ioerror"), or the file holds an integer
\* (degrees when <= 200, millidegrees above).
RawInt(n) == [kind |-> "int", value |-> n]
RawFailure(k) == [kind |-> k, value |-> 0]
RawContents ==
    {RawFailure("missing"), RawFailure("denied"), RawFailure("garbage"),
     RawFailure("ioerror")}
    \cup {RawInt(n) : n \in {30, 35, 36, 37500, 45000, 62, 85, 90000}}

\* read_temp: the exceptions of the except clause.
CaughtKinds == {"missing", "denied", "garbage"}

\* read_temp lets the exception out: it is none of FileNotFoundError,
\* ValueError, PermissionError.
read_temp_raises(raw) == raw.kind # "int" /\ raw.kind \notin CaughtKinds

\* read_temp when it returns: the float for one candidate, in millidegrees,
\* or None for a caught exception.
read_temp(raw) ==
    IF raw.kind \in CaughtKinds THEN None
    ELSE IF raw.value > MilliThreshold THEN Some(raw.value)
    ELSE Some(raw.value * MilliPerDegree)

\* max(temps) over a non-empty set of readings.
MaxOf(S) == CHOOSE m \in S : \A x \in S : x <= m

\* get_cpu_temp / get_gpu_temp let an exception of read_temp out: the for
\* loop has no try.
get_temp_raises(zones) == \E k \in DOMAIN zones : read_temp_raises(zones[k])

\* get_cpu_temp / get_gpu_temp when they return: zones is the sequence of raw
\* contents of the candidate files found by find_thermal_zones.
get_temp(zones) ==
    LET readings == {read_temp(zones[k]) : k \in DOMAIN zones} \ {None}
        temps == {ValueOf(r) : r \in readings}
    IN  IF temps = {} THEN None ELSE Some(MaxOf(temps))

\* The candidate lists find_thermal_zones can produce in one cycle.
ZoneLists == UNION {[1..n -> RawContents] : n \in 0..MaxZones}

\* ------------------------------------------------------------------ FanCurve
Pt(t, f) == [temp |-> t, fan |-> f]

\* load_config: default_config (also the "gaming" profile).
default_config ==
    [cpu_curve |-> <<Pt(35, 25), Pt(45, 40), Pt(55, 60),
                     Pt(65, 75), Pt(75, 90), Pt(85, 100)>>,
     gpu_curve |-> <<Pt(40, 30), Pt(50, 45), Pt(60, 65),
                     Pt(70, 80), Pt(80, 95), Pt(90, 100)>>,
     hysteresis |-> 2,
     update_interval |-> 1]

\* generate_profile: "quiet".
quiet_profile ==
    [cpu_curve |-> <<Pt(40, 15), Pt(50, 25), Pt(65, 40),
                     Pt(75, 60), Pt(85, 80), Pt(95, 100)>>,
     gpu_curve |-> <<Pt(45, 20), Pt(55, 30), Pt(70, 45),
                     Pt(80, 65), Pt(90, 85), Pt(100, 100)>>,
     hysteresis |-> 4,
     update_interval |-> 3]

\* generate_profile: "balanced".
balanced_profile ==
    [cpu_curve |-> <<Pt(35, 20), Pt(50, 35), Pt(65, 50),
                     Pt(75, 70), Pt(85, 85), Pt(95, 100)>>,
     gpu_curve |-> <<Pt(40, 25), Pt(55, 40), Pt(70, 55),
                     Pt(80, 75), Pt(90, 90), Pt(100, 100)>>,
     hysteresis |-> 3,
     update_interval |-> 2]

\* generate_profile: the profiles dictionary; "gaming" has the values of
\* default_config.
ProfileNames == {"gaming", "quiet", "balanced"}
profiles(name) ==
    IF name = "gaming" THEN default_config
    ELSE IF name = "quiet" THEN quiet_profile
    ELSE balanced_profile

\* A configuration file written by the operator: load_config takes whatever
\* JSON the file holds.  This one has a three-point CPU curve, a GPU curve
\* that is not sorted, and no "hysteresis" entry.
custom_config ==
    [cpu_curve |-> <<Pt(30, 20), Pt(50, 50), Pt(70, 90)>>,
     gpu_curve |-> <<Pt(60, 70), Pt(36, 10), Pt(85, 40)>>,
     update_interval |-> 2]

\* A configuration file that is valid JSON and has no "cpu_curve" entry.
partial_config ==
    [gpu_curve |-> <<Pt(40, 30), Pt(90, 100)>>,
     hysteresis |-> 2,
     update_interval |-> 1]

\* self.config before load_config has run.
NoConfig == [unloaded |-> TRUE]

\* The configuration file as load_config finds it: absent, present and
\* raising IOError on open ("unreadable"), present and raising
\* json.JSONDecodeError ("invalid"), or valid JSON with some content.
FileState(st) == [state |-> st, content |-> NoConfig]
ValidFile(cfg) == [state |-> "valid", content |-> cfg]
ConfigFiles ==
    {FileState("absent"), FileState("unreadable"), FileState("invalid"),
     ValidFile(quiet_profile), ValidFile(custom_config),
     ValidFile(partial_config)}

\* load_config: the value self.config gets.
load_config(file) ==
    IF file.state = "valid" THEN file.content ELSE default_config

\* load_config calls save_config: only when os.path.exists is False.
load_config_saves(file) == file.state = "absent"

\* The configurations self.config can hold after FanCurve.__init__.
Configs == {load_config(f) : f \in ConfigFiles}

\* run_once reads config["cpu_curve"] and config["gpu_curve"]; a missing key
\* raises KeyError.
HasCurves(cfg) == {"cpu_curve", "gpu_curve"} \subseteq DOMAIN cfg

\* edit_config also reads config['hysteresis'] and config['update_interval'].
HasAllKeys(cfg) ==
    {"cpu_curve", "gpu_curve", "hysteresis", "update_interval"}
        \subseteq DOMAIN cfg

\* calculate_fan_speed: hysteresis = self.config.get("hysteresis", 3)
Hysteresis(cfg) ==
    IF "hysteresis" \in DOMAIN cfg THEN cfg.hysteresis ELSE DefaultHysteresis

\* Position (1-based) of the first point with temp <= point["temp"], or 0
\* when the for loop runs to its end.  temp is in millidegrees.
FirstPoint(temp, curve) ==
    LET hits == {i \in 1..Len(curve) : temp <= curve[i].temp * MilliPerDegree}
    IN  IF hits = {} THEN 0 ELSE CHOOSE i \in hits : \A j \in hits : i <= j

\* A float that is the exact quotient num / den, den > 0.
Frac(num, den) == <<num, den>>
Num(q) == q[1]
Den(q) == q[2]

\* InterpolatedFan with fan_offset = temp_offset * fan_range, the division by
\* temp_range left out.
InterpolatedFan_NoDivision(temp, curve, i) ==
    LET point == curve[i]
        prev_point == curve[i - 1]
        fan_range == point.fan - prev_point.fan
        temp_offset == temp - prev_point.temp * MilliPerDegree
    IN  Frac(prev_point.fan * MilliPerDegree + temp_offset * fan_range,
             MilliPerDegree)

\* InterpolatedFan with temp_offset measured from point instead of prev_point.
InterpolatedFan_OffsetFromPoint(temp, curve, i) ==
    LET point == curve[i]
        prev_point == curve[i - 1]
        temp_range == (point.temp - prev_point.temp) * MilliPerDegree
        fan_range == point.fan - prev_point.fan
        temp_offset == temp - point.temp * MilliPerDegree
    IN  IF temp_range > 0
        THEN Frac(prev_point.fan * temp_range + temp_offset * fan_range,
                  temp_range)
        ELSE Frac(point.fan, 1)

\* target_fan of the interpolation branch at point i > 1, as the exact
\* fraction num / den:
\*   prev_point["fan"] + (temp_offset / temp_range) * fan_range
InterpolatedFan(temp, curve, i) ==
    LET point == curve[i]
        prev_point == curve[i - 1]
        temp_range == (point.temp - prev_point.temp) * MilliPerDegree
        fan_range == point.fan - prev_point.fan
        temp_offset == temp - prev_point.temp * MilliPerDegree
    IN  IF temp_range > 0
        THEN Frac(prev_point.fan * temp_range + temp_offset * fan_range,
                  temp_range)
        ELSE Frac(point.fan, 1)

Abs(x) == IF x < 0 THEN -x ELSE x

\* int(target_fan): truncation toward zero.
IntOf(q) ==
    IF Num(q) >= 0 THEN Num(q) \div Den(q) ELSE -((-Num(q)) \div Den(q))

\* abs(target_fan - current_fan) > hysteresis, on the un-truncated target.
ExceedsHysteresis(q, current_fan, hysteresis) ==
    Abs(Num(q) - current_fan * Den(q)) > hysteresis * Den(q)

\* calculate_fan_speed returning curve[0]["fan"] instead of curve[-1]["fan"]
\* above the highest point.
calculate_fan_speed_WrongEnd(temp, curve, current_fan, hysteresis) ==
    IF temp = None THEN current_fan
    ELSE LET i == FirstPoint(ValueOf(temp), curve)
         IN  IF i = 0 THEN curve[1].fan
             ELSE IF i = 1 THEN curve[1].fan
             ELSE LET target_fan == InterpolatedFan(ValueOf(temp), curve, i)
                  IN  IF ExceedsHysteresis(target_fan, current_fan, hysteresis)
                      THEN IntOf(target_fan)
                      ELSE current_fan

\* calculate_fan_speed
calculate_fan_speed(temp, curve, current_fan, hysteresis) ==
    IF temp = None THEN current_fan
    ELSE LET i == FirstPoint(ValueOf(temp), curve)
         IN  IF i = 0 THEN curve[Len(curve)].fan
             ELSE IF i = 1 THEN curve[1].fan
             ELSE LET target_fan == InterpolatedFan(ValueOf(temp), curve, i)
                  IN  IF ExceedsHysteresis(target_fan, current_fan, hysteresis)
                      THEN IntOf(target_fan)
                      ELSE current_fan

\* The value the curve yields before the hysteresis decision, as a fraction:
\* the duty returned directly in the two clamp branches, target_fan in the
\* interpolation branch, None without a reading.
CurveTarget(temp, curve) ==
    IF temp = None THEN None
    ELSE LET i == FirstPoint(ValueOf(temp), curve)
         IN  IF i = 0 THEN Frac(curve[Len(curve)].fan, 1)
             ELSE IF i = 1 THEN Frac(curve[1].fan, 1)
             ELSE InterpolatedFan(ValueOf(temp), curve, i)

\* ------------------------------------------------------------- FanController
DigitChars == <<"0", "1", "2", "3", "4", "5", "6", "7", "8", "9">>

\* str(n) of the f-string, as a sequence of characters.
RECURSIVE FormatNat(_)
FormatNat(n) ==
    IF n < 10 THEN <<DigitChars[n + 1]>>
    ELSE FormatNat(n \div 10) \o <<DigitChars[(n % 10) + 1]>>

FormatInt(n) == IF n < 0 THEN <<"-">> \o FormatNat(-n) ELSE FormatNat(n)

\* set_fan_speed: fan_value = f"{cpu_percent},{gpu_percent}"
fan_value(cpu_percent, gpu_percent) ==
    FormatInt(cpu_percent) \o <<",">> \o FormatInt(gpu_percent)

\* str.split(','): the fields of a character sequence.
RECURSIVE SplitComma(_)
SplitComma(s) ==
    LET commas == {k \in 1..Len(s) : s[k] = ","}
    IN  IF commas = {} THEN <<s>>
        ELSE LET k == CHOOSE c \in commas : \A d \in commas : c <= d
             IN  <<SubSeq(s, 1, k - 1)>> \o SplitComma(SubSeq(s, k + 1, Len(s)))

DigitValue(c) == (CHOOSE d \in 1..10 : DigitChars[d] = c) - 1

IsDigits(f) ==
    Len(f) > 0 /\ \A k \in 1..Len(f) : \E d \in 1..10 : DigitChars[d] = f[k]

\* Value of a non-empty sequence of decimal digits.
RECURSIVE DigitsValue(_)
DigitsValue(f) ==
    IF Len(f) = 1 THEN DigitValue(f[1])
    ELSE 10 * DigitsValue(SubSeq(f, 1, Len(f) - 1)) + DigitValue(f[Len(f)])

\* int(field) accepts an optionally signed run of digits, else ValueError.
IntAccepts(f) ==
    IsDigits(f) \/ (Len(f) > 1 /\ f[1] = "-" /\ IsDigits(Tail(f)))

IntValue(f) == IF f[1] = "-" THEN -DigitsValue(Tail(f)) ELSE DigitsValue(f)

\* get_fan_speed on the endpoint content: "ok" with the pair, "none" when
\* ValueError is caught, "IndexError" when speeds[1] does not exist (that
\* exception is not in the except clause).
get_fan_speed(content) ==
    LET speeds == SplitComma(content)
    IN  IF ~IntAccepts(speeds[1])
        THEN [status |-> "none", cpu |-> 0, gpu |-> 0]
        ELSE IF Len(speeds) < 2
        THEN [status |-> "IndexError", cpu |-> 0, gpu |-> 0]
        ELSE IF ~IntAccepts(speeds[2])
        THEN [status |-> "none", cpu |-> 0, gpu |-> 0]
        ELSE [status |-> "ok", cpu |-> IntValue(speeds[1]),
              gpu |-> IntValue(speeds[2])]

\* ---------------------------------------------------------------- the state
VARIABLES
    pc,             \* position of the main thread
    running,        \* self.running
    config,         \* self.fan_curve.config
    last_cpu_fan,   \* self.last_cpu_fan
    last_gpu_fan,   \* self.last_gpu_fan
    cpu_temp,       \* run_once local; None until pc passes "sample_cpu"
    gpu_temp,       \* run_once local; None until pc passes "sample_gpu"
    new_cpu_fan,    \* run_once local; NoDuty until it is assigned
    new_gpu_fan,    \* run_once local; NoDuty until it is assigned
    fan_speed,      \* content of the actuator endpoint (sysfs file)
    cycle_start,    \* history: <<last_cpu_fan, last_gpu_fan>> at cycle start
    targets,        \* history: <<CurveTarget cpu, CurveTarget gpu>> of the cycle
    writes,         \* history: set_fan_speed calls made in this cycle
    write_result,   \* history: "none", "ok" or "failed" for this cycle
    stopped_at,     \* history: pc at which KeyboardInterrupt was raised
    mode,           \* the branch of main the command line selects
    sysfs_exists,   \* os.path.exists(self.sysfs_path) in check_module
    is_root,        \* os.geteuid() == 0
    config_file,    \* the configuration file on disk
    config_io,      \* history: load_config has run
    sensors_read,   \* history: get_cpu_temp or get_gpu_temp has been called
    status_report,  \* what show_status printed for the fan speeds
    exception,      \* the exception that ended the process, or "none"
    exit_status,    \* exit status of the process, NotExited while it runs
    s_zones,        \* sensor sampling on its own: the candidate list
    s_result,       \* sensor sampling on its own: what get_cpu_temp did
    held,           \* steady readings: the pair every cycle samples, or <<>>
    cycle,          \* steady readings: cycles completed under held
    m_pc,           \* menu: position in fan_control_menu
    m_cpu,          \* menu: local cpu of fan_control_menu, NoDuty until set
    m_input,        \* menu: the text input() returned last
    m_rejected,     \* menu: get_numeric_input rejected that text
    m_reprompted,   \* menu history: some text has been rejected
    m_written       \* menu history: the last value given to f.write

sensor_vars == <<s_zones, s_result>>
steady_vars == <<held, cycle>>
menu_vars == <<m_pc, m_cpu, m_input, m_rejected, m_reprompted, m_written>>

\* Variables no step of main or of the control loop touches.
aux_vars == <<sensor_vars, steady_vars, menu_vars>>

\* Variables the control loop only reads.
proc_vars == <<mode, sysfs_exists, is_root, config_file, config_io,
               status_report>>

vars == <<pc, running, config, last_cpu_fan, last_gpu_fan, cpu_temp, gpu_temp,
          new_cpu_fan, new_gpu_fan, fan_speed, cycle_start, targets, writes,
          write_result, stopped_at, proc_vars, sensors_read, exception,
          exit_status, aux_vars>>

\* exit_status of a process that has not ended.
NotExited == -1

\* main: the branch taken at lines 388-400.
Modes == {"profile", "status", "edit_config", "once", "daemon"}

\* Positions inside run_once; in run_daemon they are inside the try block.
\* "sleep" is the position after run_once has returned.
LoopPcs == {"sample_cpu", "sample_gpu", "compute", "write", "writing",
            "wrote", "sleep"}

\* What the actuator endpoint can hold when the program starts: a pair, an
\* empty file, one field, a trailing comma, fields that are not numbers.
EndpointContents ==
    {fan_value(0, 0), fan_value(50, 50), <<>>, <<"5", "0">>,
     <<"5", "0", ",">>, <<"a", ",", "b">>}

NoReport == [kind |-> "none", cpu |-> 0, gpu |-> 0]

\* No sensor call is looked at on its own.
SensorIdle ==
    /\ s_zones = <<>>
    /\ s_result = [state |-> "idle", reading |-> None]

\* The readings are not held.
SteadyIdle ==
    /\ held = <<>>
    /\ cycle = 0

\* The menu program is not running.
MenuIdle ==
    /\ m_pc = "off"
    /\ m_cpu = NoDuty
    /\ m_input = <<>>
    /\ m_rejected = FALSE
    /\ m_reprompted = FALSE
    /\ m_written = None

AuxIdle == SensorIdle /\ SteadyIdle /\ MenuIdle

\* main has parsed the command line; no object is constructed yet.
Init ==
    /\ pc = "main"
    /\ running = FALSE
    /\ mode \in Modes
    /\ sysfs_exists \in BOOLEAN
    /\ is_root \in BOOLEAN
    /\ config_file \in ConfigFiles
    /\ config = NoConfig
    /\ config_io = FALSE
    /\ sensors_read = FALSE
    /\ status_report = NoReport
    /\ exception = "none"
    /\ exit_status = NotExited
    /\ last_cpu_fan = NoDuty
    /\ last_gpu_fan = NoDuty
    /\ cpu_temp = None
    /\ gpu_temp = None
    /\ new_cpu_fan = NoDuty
    /\ new_gpu_fan = NoDuty
    /\ fan_speed \in (IF sysfs_exists THEN EndpointContents ELSE {<<>>})
    /\ cycle_start = <<0, 0>>
    /\ targets = <<None, None>>
    /\ writes = 0
    /\ write_result = "none"
    /\ stopped_at = "none"
    /\ AuxIdle

\* An uncaught exception ends the process with a traceback and status 1.
Uncaught(exc) ==
    /\ pc' = "crashed"
    /\ exception' = exc
    /\ exit_status' = 1

\* The process ends with the given status.
Exit(status) ==
    /\ pc' = "exit"
    /\ exception' = exception
    /\ exit_status' = status

\* save_config: json.dump into the file, or IOError, which is only printed.
save_config(cfg) == {ValidFile(cfg), config_file}

\* FanCurveController.__init__ with FanCurve constructed before
\* FanController.
FanCurveController_init_CurveFirst ==
    /\ pc = "main"
    /\ config' = load_config(config_file)
    /\ config_io' = TRUE
    /\ config_file' \in (IF load_config_saves(config_file)
                         THEN save_config(default_config) ELSE {config_file})
    /\ IF ~sysfs_exists
       THEN /\ Exit(1)
            /\ UNCHANGED <<last_cpu_fan, last_gpu_fan>>
       ELSE /\ last_cpu_fan' = 0
            /\ last_gpu_fan' = 0
            /\ pc' = "dispatch"
            /\ UNCHANGED <<exception, exit_status>>
    /\ UNCHANGED <<running, cpu_temp, gpu_temp, new_cpu_fan, new_gpu_fan,
                   fan_speed, cycle_start, targets, writes, write_result,
                   stopped_at, mode, sysfs_exists, is_root, sensors_read,
                   status_report, aux_vars>>

\* main: controller = FanCurveController(args.config).  ThermalMonitor(),
\* then FanController() whose check_module exits with status 1 when the
\* endpoint does not exist, then FanCurve(config_file) which loads the
\* configuration, then the two last duties are set to 0.
FanCurveController_init ==
    /\ pc = "main"
    /\ IF ~sysfs_exists
       THEN /\ Exit(1)
            /\ UNCHANGED <<config, config_io, config_file, last_cpu_fan,
                           last_gpu_fan>>
       ELSE /\ config' = load_config(config_file)
            /\ config_io' = TRUE
            /\ config_file' \in (IF load_config_saves(config_file)
                                 THEN save_config(default_config)
                                 ELSE {config_file})
            /\ last_cpu_fan' = 0
            /\ last_gpu_fan' = 0
            /\ pc' = "dispatch"
            /\ UNCHANGED <<exception, exit_status>>
    /\ UNCHANGED <<running, cpu_temp, gpu_temp, new_cpu_fan, new_gpu_fan,
                   fan_speed, cycle_start, targets, writes, write_result,
                   stopped_at, mode, sysfs_exists, is_root, sensors_read,
                   status_report, aux_vars>>

\* main: args.profile; generate_profile sets and saves the profile.
ApplyProfile ==
    /\ pc = "dispatch"
    /\ mode = "profile"
    /\ \E name \in ProfileNames :
           /\ config' = profiles(name)
           /\ config_file' \in save_config(profiles(name))
    /\ Exit(0)
    /\ UNCHANGED <<running, last_cpu_fan, last_gpu_fan, cpu_temp, gpu_temp,
                   new_cpu_fan, new_gpu_fan, fan_speed, cycle_start, targets,
                   writes, write_result, stopped_at, mode, sysfs_exists,
                   is_root, config_io, sensors_read, status_report, aux_vars>>

\* show_status: cpu_temp = self.thermal_monitor.get_cpu_temp()
StatusCpu ==
    /\ pc = "dispatch"
    /\ mode = "status"
    /\ sensors_read' = TRUE
    /\ \E zones \in ZoneLists :
           IF get_temp_raises(zones)
           THEN Uncaught("OSError") /\ cpu_temp' = cpu_temp
           ELSE /\ cpu_temp' = get_temp(zones)
                /\ pc' = "status_gpu"
                /\ UNCHANGED <<exception, exit_status>>
    /\ UNCHANGED <<running, config, last_cpu_fan, last_gpu_fan, gpu_temp,
                   new_cpu_fan, new_gpu_fan, fan_speed, cycle_start, targets,
                   writes, write_result, stopped_at, proc_vars, aux_vars>>

\* show_status: gpu_temp = self.thermal_monitor.get_gpu_temp()
StatusGpu ==
    /\ pc = "status_gpu"
    /\ \E zones \in ZoneLists :
           IF get_temp_raises(zones)
           THEN Uncaught("OSError") /\ gpu_temp' = gpu_temp
           ELSE /\ gpu_temp' = get_temp(zones)
                /\ pc' = "status_fan"
                /\ UNCHANGED <<exception, exit_status>>
    /\ UNCHANGED <<running, config, last_cpu_fan, last_gpu_fan, cpu_temp,
                   new_cpu_fan, new_gpu_fan, fan_speed, cycle_start, targets,
                   writes, write_result, stopped_at, proc_vars, sensors_read,
                   aux_vars>>

\* What show_status prints for the result of get_fan_speed.
ReportOf(r) ==
    IF r.status = "ok" THEN [kind |-> "speeds", cpu |-> r.cpu, gpu |-> r.gpu]
    ELSE [kind |-> "unavailable", cpu |-> 0, gpu |-> 0]

\* show_status: fan_speeds = self.fan_controller.get_fan_speed() and the
\* prints.  The open or the read may raise OSError, which get_fan_speed
\* turns into None.
StatusFan ==
    /\ pc = "status_fan"
    /\ \E readable \in BOOLEAN :
           LET r == IF readable THEN get_fan_speed(fan_speed)
                    ELSE [status |-> "none", cpu |-> 0, gpu |-> 0]
           IN  IF r.status = "IndexError"
               THEN Uncaught("IndexError") /\ status_report' = status_report
               ELSE Exit(0) /\ status_report' = ReportOf(r)
    /\ UNCHANGED <<running, config, last_cpu_fan, last_gpu_fan, cpu_temp,
                   gpu_temp, new_cpu_fan, new_gpu_fan, fan_speed, cycle_start,
                   targets, writes, write_result, stopped_at, mode,
                   sysfs_exists, is_root, config_file, config_io,
                   sensors_read, aux_vars>>

\* main: args.edit_config; edit_config prints the four entries of the
\* configuration, a missing one raises KeyError.
EditConfig ==
    /\ pc = "dispatch"
    /\ mode = "edit_config"
    /\ IF HasAllKeys(config) THEN Exit(0) ELSE Uncaught("KeyError")
    /\ UNCHANGED <<running, config, last_cpu_fan, last_gpu_fan, cpu_temp,
                   gpu_temp, new_cpu_fan, new_gpu_fan, fan_speed, cycle_start,
                   targets, writes, write_result, stopped_at, proc_vars,
                   sensors_read, aux_vars>>

\* check_root: os.geteuid() != 0, sys.exit(1).
CheckRootFails ==
    /\ pc = "dispatch"
    /\ mode \in {"once", "daemon"}
    /\ ~is_root
    /\ Exit(1)
    /\ UNCHANGED <<running, config, last_cpu_fan, last_gpu_fan, cpu_temp,
                   gpu_temp, new_cpu_fan, new_gpu_fan, fan_speed, cycle_start,
                   targets, writes, write_result, stopped_at, proc_vars,
                   sensors_read, aux_vars>>

\* What the start of a run_once call does to the locals and the history.
EnterCycle ==
    /\ cpu_temp' = None
    /\ gpu_temp' = None
    /\ new_cpu_fan' = NoDuty
    /\ new_gpu_fan' = NoDuty
    /\ cycle_start' = <<last_cpu_fan, last_gpu_fan>>
    /\ targets' = <<None, None>>
    /\ writes' = 0
    /\ write_result' = "none"

\* main: args.once; check_root passes, run_once is called.
RunOnce ==
    /\ pc = "dispatch"
    /\ mode = "once"
    /\ is_root
    /\ pc' = "sample_cpu"
    /\ EnterCycle
    /\ UNCHANGED <<running, config, last_cpu_fan, last_gpu_fan, fan_speed,
                   stopped_at, proc_vars, sensors_read, exception,
                   exit_status, aux_vars>>

\* main: no other flag; check_root passes; run_daemon up to the first
\* run_once call.
RunDaemon ==
    /\ pc = "dispatch"
    /\ mode = "daemon"
    /\ is_root
    /\ running' = TRUE
    /\ pc' = "sample_cpu"
    /\ EnterCycle
    /\ UNCHANGED <<config, last_cpu_fan, last_gpu_fan, fan_speed, stopped_at,
                   proc_vars, sensors_read, exception, exit_status, aux_vars>>

\* run_once: cpu_temp = self.thermal_monitor.get_cpu_temp()
SampleCpu ==
    /\ pc = "sample_cpu"
    /\ \E zones \in ZoneLists :
           ~get_temp_raises(zones) /\ cpu_temp' = get_temp(zones)
    /\ sensors_read' = TRUE
    /\ pc' = "sample_gpu"
    /\ UNCHANGED <<running, config, last_cpu_fan, last_gpu_fan, gpu_temp,
                   new_cpu_fan, new_gpu_fan, fan_speed, cycle_start, targets,
                   writes, write_result, stopped_at, proc_vars, exception,
                   exit_status, aux_vars>>

\* run_once: gpu_temp = self.thermal_monitor.get_gpu_temp()
SampleGpu ==
    /\ pc = "sample_gpu"
    /\ \E zones \in ZoneLists :
           ~get_temp_raises(zones) /\ gpu_temp' = get_temp(zones)
    /\ sensors_read' = TRUE
    /\ pc' = "compute"
    /\ UNCHANGED <<running, config, last_cpu_fan, last_gpu_fan, cpu_temp,
                   new_cpu_fan, new_gpu_fan, fan_speed, cycle_start, targets,
                   writes, write_result, stopped_at, proc_vars, exception,
                   exit_status, aux_vars>>

\* run_once: get_cpu_temp or get_gpu_temp lets an OSError of a candidate
\* out; neither run_once nor run_daemon catches it.
SampleRaises ==
    /\ pc \in {"sample_cpu", "sample_gpu"}
    /\ \E zones \in ZoneLists : get_temp_raises(zones)
    /\ sensors_read' = TRUE
    /\ Uncaught("OSError")
    /\ UNCHANGED <<running, config, last_cpu_fan, last_gpu_fan, cpu_temp,
                   gpu_temp, new_cpu_fan, new_gpu_fan, fan_speed, cycle_start,
                   targets, writes, write_result, stopped_at, proc_vars,
                   aux_vars>>

\* NoSensors that commands full speed instead of returning.
NoSensors_FullSpeed ==
    /\ pc = "compute"
    /\ cpu_temp = None /\ gpu_temp = None
    /\ new_cpu_fan' = 100
    /\ new_gpu_fan' = 100
    /\ pc' = "write"
    /\ UNCHANGED <<running, config, last_cpu_fan, last_gpu_fan, cpu_temp,
                   gpu_temp, fan_speed, cycle_start, targets, writes,
                   write_result, stopped_at, proc_vars, sensors_read,
                   exception, exit_status, aux_vars>>

\* run_once: both readings None, "No thermal sensors found", return False.
NoSensors ==
    /\ pc = "compute"
    /\ cpu_temp = None /\ gpu_temp = None
    /\ pc' = "sleep"
    /\ UNCHANGED <<running, config, last_cpu_fan, last_gpu_fan, cpu_temp,
                   gpu_temp, new_cpu_fan, new_gpu_fan, fan_speed, cycle_start,
                   targets, writes, write_result, stopped_at, proc_vars,
                   sensors_read, exception, exit_status, aux_vars>>

\* run_once: self.fan_curve.config["cpu_curve"] or ["gpu_curve"] raises
\* KeyError; nothing catches it.
CurveMissing ==
    /\ pc = "compute"
    /\ ~(cpu_temp = None /\ gpu_temp = None)
    /\ ~HasCurves(config)
    /\ Uncaught("KeyError")
    /\ UNCHANGED <<running, config, last_cpu_fan, last_gpu_fan, cpu_temp,
                   gpu_temp, new_cpu_fan, new_gpu_fan, fan_speed, cycle_start,
                   targets, writes, write_result, stopped_at, proc_vars,
                   sensors_read, aux_vars>>

\* DutyChanged that holds on every cycle.
DutyChanged_Always(ncpu, ngpu, lcpu, lgpu) == TRUE

\* DutyChanged with "and" in place of "or".
DutyChanged_And(ncpu, ngpu, lcpu, lgpu) == ncpu # lcpu /\ ngpu # lgpu

\* run_once: new_cpu_fan != self.last_cpu_fan or new_gpu_fan != self.last_gpu_fan
DutyChanged(ncpu, ngpu, lcpu, lgpu) == ncpu # lcpu \/ ngpu # lgpu

\* run_once: the two calculate_fan_speed calls and the changed test.
Calculate ==
    /\ pc = "compute"
    /\ ~(cpu_temp = None /\ gpu_temp = None)
    /\ HasCurves(config)
    /\ LET ncpu == calculate_fan_speed(cpu_temp, config.cpu_curve,
                                       last_cpu_fan, Hysteresis(config))
           ngpu == calculate_fan_speed(gpu_temp, config.gpu_curve,
                                       last_gpu_fan, Hysteresis(config))
       IN  /\ new_cpu_fan' = ncpu
           /\ new_gpu_fan' = ngpu
           /\ pc' = IF DutyChanged(ncpu, ngpu, last_cpu_fan, last_gpu_fan)
                    THEN "write" ELSE "sleep"
    /\ targets' = <<CurveTarget(cpu_temp, config.cpu_curve),
                    CurveTarget(gpu_temp, config.gpu_curve)>>
    /\ UNCHANGED <<running, config, last_cpu_fan, last_gpu_fan, cpu_temp,
                   gpu_temp, fan_speed, cycle_start, writes, write_result,
                   stopped_at, proc_vars, sensors_read, exception,
                   exit_status, aux_vars>>

\* set_fan_speed is called; open(self.sysfs_path, 'w') succeeds.
SetFanSpeedOpen ==
    /\ pc = "write"
    /\ writes' = writes + 1
    /\ pc' = "writing"
    /\ UNCHANGED <<running, config, last_cpu_fan, last_gpu_fan, cpu_temp,
                   gpu_temp, new_cpu_fan, new_gpu_fan, fan_speed, cycle_start,
                   targets, write_result, stopped_at, proc_vars, sensors_read,
                   exception, exit_status, aux_vars>>

\* AfterFailedWrite that ignores the result of set_fan_speed and assigns.
AfterFailedWrite_Assigns ==
    /\ last_cpu_fan' = new_cpu_fan
    /\ last_gpu_fan' = new_gpu_fan

\* run_once after set_fan_speed returned False: nothing is assigned.
AfterFailedWrite ==
    /\ last_cpu_fan' = last_cpu_fan
    /\ last_gpu_fan' = last_gpu_fan

\* set_fan_speed: f.write(fan_value) and the close of the with block succeed;
\* it returns True.
SetFanSpeedWrite ==
    /\ pc = "writing"
    /\ fan_speed' = fan_value(new_cpu_fan, new_gpu_fan)
    /\ write_result' = "ok"
    /\ pc' = "wrote"
    /\ UNCHANGED <<running, config, last_cpu_fan, last_gpu_fan, cpu_temp,
                   gpu_temp, new_cpu_fan, new_gpu_fan, cycle_start, targets,
                   writes, stopped_at, proc_vars, sensors_read, exception,
                   exit_status, aux_vars>>

\* set_fan_speed raises OSError at open, at write or at close, prints the
\* error and returns False; run_once returns False.
SetFanSpeedFails ==
    /\ pc \in {"write", "writing"}
    /\ writes' = IF pc = "write" THEN writes + 1 ELSE writes
    /\ write_result' = "failed"
    /\ AfterFailedWrite
    /\ pc' = "sleep"
    /\ UNCHANGED <<running, config, cpu_temp, gpu_temp, new_cpu_fan,
                   new_gpu_fan, fan_speed, cycle_start, targets, stopped_at,
                   proc_vars, sensors_read, exception, exit_status, aux_vars>>

\* The print after a successful write formats both temperatures with
\* ":.1f"; None has no such format and raises TypeError.
PrintRaises(ctemp, gtemp) == ctemp = None \/ gtemp = None

\* run_once after set_fan_speed returned True: the two assignments, the
\* print, return True.  A TypeError from the print is caught nowhere.
CommitAndPrint ==
    /\ pc = "wrote"
    /\ last_cpu_fan' = new_cpu_fan
    /\ last_gpu_fan' = new_gpu_fan
    /\ IF PrintRaises(cpu_temp, gpu_temp)
       THEN Uncaught("TypeError")
       ELSE pc' = "sleep" /\ UNCHANGED <<exception, exit_status>>
    /\ UNCHANGED <<running, config, cpu_temp, gpu_temp, new_cpu_fan,
                   new_gpu_fan, fan_speed, cycle_start, targets, writes,
                   write_result, stopped_at, proc_vars, sensors_read,
                   aux_vars>>

\* main: run_once has returned in the single-shot mode; main returns.
OnceReturns ==
    /\ pc = "sleep"
    /\ mode = "once"
    /\ Exit(0)
    /\ UNCHANGED <<running, config, last_cpu_fan, last_gpu_fan, cpu_temp,
                   gpu_temp, new_cpu_fan, new_gpu_fan, fan_speed, cycle_start,
                   targets, writes, write_result, stopped_at, proc_vars,
                   sensors_read, aux_vars>>

\* run_daemon: time.sleep(update_interval) returns, while self.running holds,
\* the next run_once starts.
Sleep ==
    /\ pc = "sleep"
    /\ running
    /\ pc' = "sample_cpu"
    /\ EnterCycle
    /\ UNCHANGED <<running, config, last_cpu_fan, last_gpu_fan, fan_speed,
                   stopped_at, proc_vars, sensors_read, exception,
                   exit_status, aux_vars>>

\* KeyboardInterrupt is raised in the main thread at whatever statement it is
\* executing inside the try block; except KeyboardInterrupt sets running to
\* False, run_daemon and main return.  Inside the with block the file is
\* closed on the way out, so the buffered value reaches the endpoint if
\* f.write had already run.
Interrupt ==
    /\ pc \in LoopPcs
    /\ running
    /\ stopped_at' = pc
    /\ pc' = "stopped"
    /\ running' = FALSE
    /\ exit_status' = 0
    /\ IF pc = "writing"
       THEN fan_speed' \in {fan_speed, fan_value(new_cpu_fan, new_gpu_fan)}
       ELSE fan_speed' = fan_speed
    /\ UNCHANGED <<config, last_cpu_fan, last_gpu_fan, cpu_temp, gpu_temp,
                   new_cpu_fan, new_gpu_fan, cycle_start, targets, writes,
                   write_result, proc_vars, sensors_read, exception, aux_vars>>

Next ==
    \/ FanCurveController_init
    \/ ApplyProfile
    \/ StatusCpu
    \/ StatusGpu
    \/ StatusFan
    \/ EditConfig
    \/ CheckRootFails
    \/ RunOnce
    \/ RunDaemon
    \/ SampleCpu
    \/ SampleGpu
    \/ SampleRaises
    \/ NoSensors
    \/ CurveMissing
    \/ Calculate
    \/ SetFanSpeedOpen
    \/ SetFanSpeedWrite
    \/ SetFanSpeedFails
    \/ CommitAndPrint
    \/ OnceReturns
    \/ Sleep
    \/ Interrupt

Spec == Init /\ [][Next]_vars

\* ------------------------------------------ one sensor call on its own
\* The main thread is not running: every variable of main and of the
\* control loop keeps the value it has before main starts.
MainOff ==
    /\ pc = "off"
    /\ running = FALSE
    /\ mode = "daemon"
    /\ sysfs_exists = TRUE
    /\ is_root = TRUE
    /\ config_file = FileState("absent")
    /\ config = NoConfig
    /\ config_io = FALSE
    /\ sensors_read = FALSE
    /\ status_report = NoReport
    /\ exception = "none"
    /\ exit_status = NotExited
    /\ last_cpu_fan = NoDuty
    /\ last_gpu_fan = NoDuty
    /\ cpu_temp = None
    /\ gpu_temp = None
    /\ new_cpu_fan = NoDuty
    /\ new_gpu_fan = NoDuty
    /\ fan_speed = fan_value(0, 0)
    /\ cycle_start = <<0, 0>>
    /\ targets = <<None, None>>
    /\ writes = 0
    /\ write_result = "none"
    /\ stopped_at = "none"

main_vars == <<pc, running, config, last_cpu_fan, last_gpu_fan, cpu_temp,
               gpu_temp, new_cpu_fan, new_gpu_fan, fan_speed, cycle_start,
               targets, writes, write_result, stopped_at, proc_vars,
               sensors_read, exception, exit_status>>

\* find_thermal_zones has returned the candidates of one domain.
InitSensor ==
    /\ MainOff
    /\ SteadyIdle
    /\ MenuIdle
    /\ s_zones \in ZoneLists
    /\ s_result = [state |-> "idle", reading |-> None]

\* get_cpu_temp / get_gpu_temp: every read_temp call returns and the
\* function returns max(temps) or None.
GetTempReturns ==
    /\ s_result.state = "idle"
    /\ ~get_temp_raises(s_zones)
    /\ s_result' = [state |-> "returned", reading |-> get_temp(s_zones)]
    /\ UNCHANGED <<main_vars, s_zones, steady_vars, menu_vars>>

\* get_cpu_temp / get_gpu_temp: a read_temp call raises an exception its
\* except clause does not name; the loop over the candidates is left and
\* the exception leaves the function.
GetTempRaises ==
    /\ s_result.state = "idle"
    /\ get_temp_raises(s_zones)
    /\ s_result' = [state |-> "raised", reading |-> None]
    /\ UNCHANGED <<main_vars, s_zones, steady_vars, menu_vars>>

NextSensor ==
    \/ GetTempReturns
    \/ GetTempRaises

SpecSensor == InitSensor /\ [][NextSensor]_vars

\* ------------------------------------------------- readings that stay
\* The results get_cpu_temp / get_gpu_temp can return.
Readings == {get_temp(zones) : zones \in {z \in ZoneLists : ~get_temp_raises(z)}}

\* A configuration file that sets the band to 0.
zero_band_config == [default_config EXCEPT !.hysteresis = 0]

SteadyConfigs ==
    {default_config, quiet_profile, custom_config, zero_band_config}

\* Number of cycles followed after the readings have become constant.
MaxCycles == 3

\* The daemon has been started as root with the endpoint present and a
\* configuration file that has both curves; main is about to call run_daemon.
InitSteady ==
    /\ pc = "dispatch"
    /\ running = FALSE
    /\ mode = "daemon"
    /\ sysfs_exists = TRUE
    /\ is_root = TRUE
    /\ config \in SteadyConfigs
    /\ config_file = ValidFile(config)
    /\ config_io = TRUE
    /\ sensors_read = FALSE
    /\ status_report = NoReport
    /\ exception = "none"
    /\ exit_status = NotExited
    /\ last_cpu_fan = 0
    /\ last_gpu_fan = 0
    /\ cpu_temp = None
    /\ gpu_temp = None
    /\ new_cpu_fan = NoDuty
    /\ new_gpu_fan = NoDuty
    /\ fan_speed = fan_value(0, 0)
    /\ cycle_start = <<0, 0>>
    /\ targets = <<None, None>>
    /\ writes = 0
    /\ write_result = "none"
    /\ stopped_at = "none"
    /\ SensorIdle
    /\ SteadyIdle
    /\ MenuIdle

\* From this cycle on the sensors give the same pair of results every time.
HoldReadings ==
    /\ pc = "sample_cpu"
    /\ held = <<>>
    /\ held' \in Readings \X Readings
    /\ cycle' = 0
    /\ UNCHANGED <<main_vars, sensor_vars, menu_vars>>

\* run_once: cpu_temp = self.thermal_monitor.get_cpu_temp()
SteadySampleCpu ==
    /\ pc = "sample_cpu"
    /\ cpu_temp' \in (IF held = <<>> THEN Readings ELSE {held[1]})
    /\ sensors_read' = TRUE
    /\ pc' = "sample_gpu"
    /\ UNCHANGED <<running, config, last_cpu_fan, last_gpu_fan, gpu_temp,
                   new_cpu_fan, new_gpu_fan, fan_speed, cycle_start, targets,
                   writes, write_result, stopped_at, proc_vars, exception,
                   exit_status, aux_vars>>

\* run_once: gpu_temp = self.thermal_monitor.get_gpu_temp()
SteadySampleGpu ==
    /\ pc = "sample_gpu"
    /\ gpu_temp' \in (IF held = <<>> THEN Readings ELSE {held[2]})
    /\ sensors_read' = TRUE
    /\ pc' = "compute"
    /\ UNCHANGED <<running, config, last_cpu_fan, last_gpu_fan, cpu_temp,
                   new_cpu_fan, new_gpu_fan, fan_speed, cycle_start, targets,
                   writes, write_result, stopped_at, proc_vars, exception,
                   exit_status, aux_vars>>

\* run_daemon: time.sleep(update_interval) returns and the next run_once
\* starts; one more cycle under the held readings is complete.
SteadySleep ==
    /\ pc = "sleep"
    /\ running
    /\ held = <<>> \/ cycle < MaxCycles
    /\ cycle' = IF held = <<>> THEN 0 ELSE cycle + 1
    /\ pc' = "sample_cpu"
    /\ EnterCycle
    /\ UNCHANGED <<running, config, last_cpu_fan, last_gpu_fan, fan_speed,
                   stopped_at, proc_vars, sensors_read, exception,
                   exit_status, sensor_vars, held, menu_vars>>

NextSteady ==
    \/ RunDaemon
    \/ HoldReadings
    \/ SteadySampleCpu
    \/ SteadySampleGpu
    \/ NoSensors
    \/ Calculate
    \/ SetFanSpeedOpen
    \/ SetFanSpeedWrite
    \/ CommitAndPrint
    \/ SteadySleep

SpecSteady == InitSteady /\ [][NextSteady]_vars

\* ------------------------------------------- the menu's fan control
\* Texts the user can type at a prompt.
MenuInputs ==
    {<<"0">>, <<"3">>, <<"6">>, <<"7">>, <<"5", "0">>, <<"1", "0", "0">>,
     <<"1", "0", "1">>, <<"-", "1">>, <<"+", "5">>, <<" ", "5">>,
     <<"a", "b", "c">>, <<"5", ",", "5">>, <<>>}

\* str.strip() as int() applies it to its argument.
RECURSIVE Strip(_)
Strip(text) ==
    IF text = <<>> THEN text
    ELSE IF Head(text) = " " THEN Strip(Tail(text))
    ELSE IF text[Len(text)] = " " THEN Strip(SubSeq(text, 1, Len(text) - 1))
    ELSE text

\* int(input(prompt)) returns: blanks around an optionally signed run of
\* digits; any other text raises ValueError.
InputAccepts(text) ==
    LET t == Strip(text)
    IN  IsDigits(t) \/ (Len(t) > 1 /\ t[1] \in {"+", "-"} /\ IsDigits(Tail(t)))

InputValue(text) ==
    LET t == Strip(text)
    IN  IF t[1] = "-" THEN -DigitsValue(Tail(t))
        ELSE IF t[1] = "+" THEN DigitsValue(Tail(t))
        ELSE DigitsValue(t)

\* InRange without the test against max_val.
InRange_NoMax(value, min_val, max_val) == value >= min_val

\* get_numeric_input: value >= min_val and value <= max_val (fan_control_menu
\* always passes a max_val).
InRange(value, min_val, max_val) == value >= min_val /\ value <= max_val

\* get_numeric_input returns for this text.
Returns(text, min_val, max_val) ==
    InputAccepts(text) /\ InRange(InputValue(text), min_val, max_val)

\* fan_control_menu: speeds
speeds ==
    << <<"0", ",", "0">>, <<"3", "0", ",", "3", "0">>,
       <<"5", "0", ",", "5", "0">>, <<"7", "0", ",", "7", "0">>,
       <<"1", "0", "0", ",", "1", "0", "0">> >>

\* fan_control_menu: custom_value = f"{cpu},{gpu}"
custom_value(cpu, gpu) == FormatInt(cpu) \o <<",">> \o FormatInt(gpu)

\* The prompts of fan_control_menu and the bounds each passes.
PromptPcs == {"choice", "cpu", "gpu"}
MaxOf_prompt(p) == IF p = "choice" THEN 6 ELSE 100

\* The user has chosen "Fan Speed Control" in the main menu.
InitMenu ==
    /\ MainOff
    /\ SensorIdle
    /\ SteadyIdle
    /\ m_pc = "top"
    /\ m_cpu = NoDuty
    /\ m_input = <<>>
    /\ m_rejected = FALSE
    /\ m_reprompted = FALSE
    /\ m_written = None

\* What nothing in the menu changes, the endpoint apart.
menu_fixed == <<pc, running, config, last_cpu_fan, last_gpu_fan, cpu_temp,
                gpu_temp, new_cpu_fan, new_gpu_fan, cycle_start, targets,
                writes, write_result, stopped_at, proc_vars, sensors_read,
                exception, exit_status, sensor_vars, steady_vars>>

\* write_state('fan_speed', value): the value reaches the endpoint, or
\* validate_path or the write raises PredatorSenseError, which the menu
\* prints.
write_state(value) ==
    \/ fan_speed' = value /\ m_written' = Some(value)
    \/ UNCHANGED <<fan_speed, m_written>>

\* fan_control_menu, top of the loop: read_state('fan_speed') returns and the
\* menu is printed, or it raises and the menu returns.
MenuShow ==
    /\ m_pc = "top"
    /\ m_pc' \in {"choice", "return"}
    /\ m_cpu' = NoDuty
    /\ m_rejected' = FALSE
    /\ UNCHANGED <<menu_fixed, fan_speed, m_input, m_reprompted, m_written>>

\* get_numeric_input: the text is not a number or is out of range; the
\* error is printed and the same prompt is shown again.
MenuReprompt ==
    /\ m_pc \in PromptPcs
    /\ \E text \in MenuInputs :
           /\ ~Returns(text, 0, MaxOf_prompt(m_pc))
           /\ m_input' = text
    /\ m_rejected' = TRUE
    /\ m_reprompted' = TRUE
    /\ UNCHANGED <<menu_fixed, fan_speed, m_pc, m_cpu, m_written>>

\* fan_control_menu: choice = get_numeric_input("Choice: ", 0, 6) returns;
\* 0 leaves the menu, 1..5 write a preset, 6 asks for the custom speeds, and
\* the loop starts over.
MenuChoose ==
    /\ m_pc = "choice"
    /\ \E text \in MenuInputs :
           /\ Returns(text, 0, 6)
           /\ m_input' = text
           /\ LET choice == InputValue(text)
              IN  IF choice = 0
                  THEN m_pc' = "return" /\ UNCHANGED <<fan_speed, m_written>>
                  ELSE IF choice <= 5
                  THEN m_pc' = "top" /\ write_state(speeds[choice])
                  ELSE IF choice = 6
                  THEN m_pc' = "cpu" /\ UNCHANGED <<fan_speed, m_written>>
                  ELSE m_pc' = "top" /\ UNCHANGED <<fan_speed, m_written>>
    /\ m_rejected' = FALSE
    /\ UNCHANGED <<menu_fixed, m_cpu, m_reprompted>>

\* fan_control_menu: cpu = get_numeric_input(..., 0, 100) returns.
MenuCpu ==
    /\ m_pc = "cpu"
    /\ \E text \in MenuInputs :
           /\ Returns(text, 0, 100)
           /\ m_input' = text
           /\ m_cpu' = InputValue(text)
    /\ m_pc' = "gpu"
    /\ m_rejected' = FALSE
    /\ UNCHANGED <<menu_fixed, fan_speed, m_reprompted, m_written>>

\* fan_control_menu: gpu = get_numeric_input(..., 0, 100) returns and the
\* custom value is written.
MenuGpu ==
    /\ m_pc = "gpu"
    /\ \E text \in MenuInputs :
           /\ Returns(text, 0, 100)
           /\ m_input' = text
           /\ write_state(custom_value(m_cpu, InputValue(text)))
    /\ m_pc' = "top"
    /\ m_rejected' = FALSE
    /\ UNCHANGED <<menu_fixed, m_cpu, m_reprompted>>

\* main_menu: "Fan Speed Control" is chosen again.
MenuEnter ==
    /\ m_pc = "return"
    /\ m_pc' = "top"
    /\ UNCHANGED <<menu_fixed, fan_speed, m_cpu, m_input, m_rejected,
                   m_reprompted, m_written>>

NextMenu ==
    \/ MenuShow
    \/ MenuReprompt
    \/ MenuChoose
    \/ MenuCpu
    \/ MenuGpu
    \/ MenuEnter

SpecMenu == InitMenu /\ [][NextMenu]_vars

\* ------------------------------------------------------------ claim helpers
\* The two thermal domains: 1 is the CPU, 2 is the GPU.
Domains == {1, 2}
TempOf(d) == IF d = 1 THEN cpu_temp ELSE gpu_temp
CurveOf(d) == IF d = 1 THEN config.cpu_curve ELSE config.gpu_curve
NewOf(d) == IF d = 1 THEN new_cpu_fan ELSE new_gpu_fan

\* Both calculate_fan_speed calls of the current cycle have returned.
Calculated == new_cpu_fan # NoDuty /\ new_gpu_fan # NoDuty

\* Both sensor calls of the current cycle have returned.
SampledPcs == {"compute", "write", "writing", "wrote", "sleep"}
Sampled ==
    \/ pc \in SampledPcs
    \/ pc = "crashed" /\ exception = "TypeError"
    \/ pc = "stopped" /\ stopped_at \in SampledPcs

\* A curve as the data model describes it: non-empty, strictly ascending
\* temperatures, duties in 0..100.
IsValidCurve(curve) ==
    /\ Len(curve) >= 1
    /\ \A k \in 1..Len(curve) : curve[k].fan \in 0..100
    /\ \A k \in 1..(Len(curve) - 1) : curve[k].temp < curve[k + 1].temp

\* ---------------------------------------------------------------------- C1
\* C1: while the loop is Running no per-cycle outcome ends it: from every
\* position inside a cycle, whatever the readings and the write result, the
\* loop goes on (or is cancelled); it never dies of an uncaught exception.
\* Stated for the cycles whose two sensor calls have returned and whose
\* configuration has both curves (C12 and C15 cover the others).
C1_NoCycleOutcomeEndsLoop ==
    [][(pc \in SampledPcs /\ HasCurves(config)) => (pc' # "crashed")]_vars

\* ---------------------------------------------------------------------- C2
\* C2: a cycle whose write failed leaves last_cpu_fan / last_gpu_fan as they
\* were at its start, and the next cycle starts from that same baseline; the
\* last duties change only after a successful write and then become exactly
\* the pair that was written to the endpoint.
C2_LastDutyFollowsWrite ==
    [][/\ (write_result' = "failed"
            => <<last_cpu_fan', last_gpu_fan'>> = cycle_start')
       /\ (write_result = "failed" /\ pc' = "sample_cpu"
            => /\ cycle_start' = cycle_start
               /\ <<last_cpu_fan', last_gpu_fan'>> = cycle_start)
       /\ ((pc # "main" /\ <<last_cpu_fan', last_gpu_fan'>>
                               # <<last_cpu_fan, last_gpu_fan>>)
            => /\ write_result = "ok"
               /\ LET r == get_fan_speed(fan_speed)
                  IN  /\ r.status = "ok"
                      /\ <<last_cpu_fan', last_gpu_fan'>> = <<r.cpu, r.gpu>>)
      ]_vars

\* A failed write of a changed pair, after earlier successful cycles.
C2_Witness ==
    /\ pc = "sleep"
    /\ write_result = "failed"
    /\ cycle_start # <<0, 0>>
    /\ <<new_cpu_fan, new_gpu_fan>> # cycle_start
    /\ <<last_cpu_fan, last_gpu_fan>> = cycle_start

\* ---------------------------------------------------------------------- C3
\* C3: for every domain with a reading, a valid curve and a band >= 0, in
\* every region of the curve, the committed duty is the last-committed duty
\* if and only if abs(target - last) <= band, and is the curve target
\* otherwise (target: the integer curve target).
C3_CommitIffOutsideBand ==
    Calculated =>
        \A d \in Domains :
            (TempOf(d) # None /\ IsValidCurve(CurveOf(d))
                              /\ Hysteresis(config) >= 0)
            => LET target == IntOf(targets[d])
                   last == cycle_start[d]
               IN  NewOf(d) = IF Abs(target - last) <= Hysteresis(config)
                              THEN last ELSE target

\* ---------------------------------------------------------------------- C4
\* C4: in a cycle in which both samples are None, set_fan_speed is never
\* called and both last duties stay as they were, whatever they were.
C4_NoSensorsNoWrite ==
    (Sampled /\ cpu_temp = None /\ gpu_temp = None)
    => /\ writes = 0
       /\ write_result = "none"
       /\ pc \notin {"write", "writing", "wrote", "crashed"}
       /\ <<last_cpu_fan, last_gpu_fan>> = cycle_start

\* A cycle without any reading, finished, after duties had been committed.
C4_Witness ==
    /\ pc = "sleep"
    /\ cpu_temp = None /\ gpu_temp = None
    /\ last_cpu_fan # 0 /\ last_gpu_fan # 0

\* ---------------------------------------------------------------------- C5
\* C5: last_cpu_fan and last_gpu_fan are always in 0..100 (0 at startup),
\* and so is every duty a cycle commits or hands to set_fan_speed, for
\* curves whose duties are in 0..100.
C5_DutiesInRange ==
    /\ (config_io => last_cpu_fan \in 0..100 /\ last_gpu_fan \in 0..100)
    /\ (pc = "dispatch" => last_cpu_fan = 0 /\ last_gpu_fan = 0)
    /\ (Calculated => new_cpu_fan \in 0..100 /\ new_gpu_fan \in 0..100)
    /\ (pc = "wrote" => LET r == get_fan_speed(fan_speed)
                        IN  r.status = "ok" /\ r.cpu \in 0..100
                                            /\ r.gpu \in 0..100)

\* An interpolated, truncated duty has been committed on the unsorted curve
\* and on a sorted one.
C5_Witness ==
    /\ config = custom_config
    /\ pc = "sleep"
    /\ gpu_temp = Some(62000)
    /\ last_gpu_fan = 25
    /\ last_cpu_fan \notin {0, 20, 50, 90}

\* ---------------------------------------------------------------------- C6
\* C6: in a cycle with at least one reading set_fan_speed is called exactly
\* when some domain's committed duty differs from its last-committed duty,
\* at most once, and what reaches the endpoint is the pair "<cpu>,<gpu>" of
\* the committed duties, a domain without a reading carrying its last duty.
C6_WriteIffChanged ==
    Calculated =>
        LET changed == <<new_cpu_fan, new_gpu_fan>> # cycle_start
        IN  /\ writes <= 1
            /\ (pc = "write" => writes = 0 /\ changed)
            /\ (pc \in {"writing", "wrote", "crashed"} => writes = 1 /\ changed)
            /\ (pc = "sleep" => (writes = 1 <=> changed))
            /\ (pc = "wrote" =>
                    get_fan_speed(fan_speed) =
                        [status |-> "ok", cpu |-> new_cpu_fan,
                         gpu |-> new_gpu_fan])
            /\ \A d \in Domains :
                   TempOf(d) = None => NewOf(d) = cycle_start[d]

\* Only the CPU has a reading and its duty changed: the pair written carries
\* the GPU's last-committed, non-zero duty.
C6_Witness ==
    /\ pc = "wrote"
    /\ cpu_temp # None /\ gpu_temp = None
    /\ cycle_start[2] > 9
    /\ new_cpu_fan # cycle_start[1]
    /\ new_cpu_fan # new_gpu_fan

\* ---------------------------------------------------------------------- C7
\* C7: the loop leaves Running only at the interval sleep: an interrupt
\* never stops it in the middle of an actuator write, nor between a
\* successful write and the update of last_cpu_fan / last_gpu_fan.
C7_NeverStopsMidWrite ==
    pc = "stopped" => stopped_at \notin {"writing", "wrote"}

\* ---------------------------------------------------------------------- C8
\* C8: for a valid curve and a temperature outside the breakpoint range the
\* target is the duty of the nearest end of the curve: the lowest
\* breakpoint's duty below the range, the highest breakpoint's duty above.
C8_ClampOutsideRange ==
    Calculated =>
        \A d \in Domains :
            (TempOf(d) # None /\ IsValidCurve(CurveOf(d)))
            => LET curve == CurveOf(d)
                   temp == ValueOf(TempOf(d))
                   lowest == curve[1]
                   highest == curve[Len(curve)]
               IN  /\ (temp < lowest.temp * MilliPerDegree
                        => /\ targets[d] = Frac(lowest.fan, 1)
                           /\ NewOf(d) = lowest.fan)
                   /\ (temp > highest.temp * MilliPerDegree
                        => /\ targets[d] = Frac(highest.fan, 1)
                           /\ NewOf(d) = highest.fan)

\* One cycle with the CPU above its curve and the GPU below its curve, from
\* a last duty that is not the clamp duty.
C8_Witness ==
    /\ config = default_config
    /\ Calculated
    /\ cpu_temp = Some(90000) /\ gpu_temp = Some(30000)
    /\ cycle_start[1] \notin {0, 100}
    /\ cycle_start[2] \notin {0, 30}

C10_TruncateBeforeHysteresis ==
    Calculated =>
        \A d \in Domains :
            (TempOf(d) # None /\ IsValidCurve(CurveOf(d)))
            => LET curve == CurveOf(d)
                   temp == ValueOf(TempOf(d))
                   i == FirstPoint(temp, curve)
                   last == cycle_start[d]
                   band == Hysteresis(config)
               IN  (i > 1 /\ temp < curve[i].temp * MilliPerDegree)
                   => /\ (NewOf(d) = last
                            <=> Abs(IntOf(targets[d]) - last) <= band)
                      /\ (NewOf(d) # last
                            => /\ NewOf(d) = IntOf(targets[d])
                               /\ Abs(NewOf(d) - last) > band)

\* --------------------------------------------------------------------- C11
\* C11: for every list of candidates of a domain the reading is None if and
\* only if no candidate is readable, and otherwise it is the maximum of the
\* normalized values of the readable candidates (a raw integer above 200 is
\* in millidegrees, one of 200 or less is in degrees).
C11_ReadingIsMaxOfReadable ==
    s_result.state # "idle" =>
        LET readable == {k \in DOMAIN s_zones : s_zones[k].kind = "int"}
            normalized(k) == IF s_zones[k].value > 200 THEN s_zones[k].value
                             ELSE s_zones[k].value * 1000
        IN  /\ s_result.state = "returned"
            /\ (s_result.reading = None <=> readable = {})
            /\ (readable # {} =>
                    /\ \E k \in readable :
                           s_result.reading = Some(normalized(k))
                    /\ \A k \in readable :
                           ValueOf(s_result.reading) >= normalized(k))

\* --------------------------------------------------------------------- C12
\* C12: whatever way the read of a sensor candidate fails, the candidate is
\* skipped and the cycle goes on: no sensor call of a cycle ends the
\* process.
C12_SensorFailureNotFatal ==
    [][(pc \in {"sample_cpu", "sample_gpu"}) => (pc' # "crashed")]_vars

\* --------------------------------------------------------------------- C13
\* C13: for every content of the actuator endpoint get_fan_speed returns the
\* pair or a failure value and never raises, and the status query reports
\* the speeds exactly when the content is a pair, else "unavailable".
C13_GetFanSpeedNeverRaises ==
    /\ exception # "IndexError"
    /\ (pc = "exit" /\ status_report # NoReport
            => status_report \in
                   {ReportOf(get_fan_speed(fan_speed)),
                    [kind |-> "unavailable", cpu |-> 0, gpu |-> 0]})

\* --------------------------------------------------------------------- C14
\* C14: when the actuator endpoint does not exist, the only step the program
\* takes, in every mode, is to exit with status 1: no sensor has been read,
\* the configuration has been neither loaded nor written, and nothing has
\* been written to the endpoint.
C14_MissingEndpointExitsFirst ==
    [][~sysfs_exists =>
           /\ pc' = "exit"
           /\ exit_status' = 1
           /\ ~sensors_read'
           /\ ~config_io'
           /\ config' = NoConfig
           /\ config_file' = config_file
           /\ writes' = 0
           /\ fan_speed' = fan_speed]_vars

\* The program has exited in the daemon mode without creating the absent
\* configuration file.
C14_Witness ==
    /\ ~sysfs_exists
    /\ mode = "daemon"
    /\ pc = "exit"
    /\ exit_status = 1
    /\ config_file = FileState("absent")

\* --------------------------------------------------------------------- C15
\* C15: whatever the configuration file holds (absent, unreadable, invalid
\* JSON, valid JSON that lacks an entry), the program goes on with a
\* configuration a control cycle can run with: no single-shot or daemon run
\* dies of a missing entry.
C15_LoadNeverStopsExecution ==
    mode \in {"once", "daemon"} => exception # "KeyError"

\* --------------------------------------------------------------------- C16
\* C16: every curve calculate_fan_speed is called with in a cycle, whether
\* built in, from a profile or from the configuration file, is non-empty and
\* strictly ascending by temperature.
C16_EvaluatedCurvesSorted ==
    Calculated =>
        \A d \in Domains :
            TempOf(d) # None =>
                /\ Len(CurveOf(d)) >= 1
                /\ \A k \in 1..(Len(CurveOf(d)) - 1) :
                       CurveOf(d)[k].temp < CurveOf(d)[k + 1].temp

\* --------------------------------------------------------------------- C17
\* C17: in every mode, once the process has ended, its exit status is
\* non-zero exactly when the actuator endpoint is absent or the mode needs
\* root and the user is not root.  Stated for the runs that do not end with
\* one of the exceptions C12, C13 and C15 are about.
C17_ExitStatus ==
    (exit_status # NotExited
        /\ exception \notin {"OSError", "IndexError", "KeyError"}) =>
        (exit_status # 0
            <=> \/ ~sysfs_exists
                \/ mode \in {"once", "daemon"} /\ ~is_root)

\* --------------------------------------------------------------------- C18
\* C18: once the readings stay the same from cycle to cycle, with valid
\* curves, a band >= 0 and writes that succeed, the second and every later
\* cycle commits the duties the first one committed and writes nothing: the
\* last duties never change again, whatever they were before.
C18_FixedPointAfterOneCycle ==
    (held # <<>> /\ cycle >= 1 /\ Hysteresis(config) >= 0
        /\ IsValidCurve(config.cpu_curve) /\ IsValidCurve(config.gpu_curve))
    => /\ <<last_cpu_fan, last_gpu_fan>> = cycle_start
       /\ writes = 0
       /\ pc \notin {"write", "writing", "wrote", "crashed"}
       /\ (Calculated => <<new_cpu_fan, new_gpu_fan>> = cycle_start)

\* The third cycle under held readings has calculated, on an interpolated
\* CPU target, after the first cycle changed both duties with a band of 0.
C18_Witness ==
    /\ held = <<Some(37500), Some(62000)>>
    /\ config = zero_band_config
    /\ cycle = 2
    /\ Calculated
    /\ pc = "sleep"
    /\ <<last_cpu_fan, last_gpu_fan>> = <<28, 68>>

\* --------------------------------------------------------------------- C19
\* C19: whatever the user types, every value the menu writes to fan_speed is
\* one of the five presets or a pair "<cpu>,<gpu>" of integers in 0..100;
\* a text that is not a number, or a number outside the range of the prompt
\* it was typed at, is asked for again and nothing is written.
C19_MenuWritesValidPairs ==
    [][/\ (m_written' # None =>
              LET value == ValueOf(m_written')
                  pair == get_fan_speed(value)
              IN  \/ value \in {<<"0", ",", "0">>, <<"3", "0", ",", "3", "0">>,
                                <<"5", "0", ",", "5", "0">>,
                                <<"7", "0", ",", "7", "0">>,
                                <<"1", "0", "0", ",", "1", "0", "0">>}
                  \/ /\ pair.status = "ok"
                     /\ pair.cpu \in 0..100
                     /\ pair.gpu \in 0..100
                     /\ value = FormatInt(pair.cpu) \o <<",">>
                                    \o FormatInt(pair.gpu))
       /\ (fan_speed' # fan_speed => m_written' = Some(fan_speed'))
       /\ (m_pc \in PromptPcs =>
              LET invalid ==
                      \/ ~InputAccepts(m_input')
                      \/ InputValue(m_input') < 0
                      \/ InputValue(m_input') > MaxOf_prompt(m_pc)
              IN  /\ (invalid <=> m_rejected')
                  /\ (invalid => /\ m_pc' = m_pc
                                 /\ fan_speed' = fan_speed
                                 /\ m_written' = m_written))
      ]_vars

\* After a rejected text the custom pair "50,100" has been written.
C19_Witness ==
    /\ m_pc = "top"
    /\ m_reprompted
    /\ m_cpu = 50
    /\ m_input = <<"1", "0", "0">>
    /\ m_written = Some(<<"5", "0", ",", "1", "0", "0">>)
    /\ fan_speed = <<"5", "0", ",", "1", "0", "0">>

====
